---- MODULE Spec2Model ----
(***************************************************************************)
(* Model of the two catalog builders of tools/modbus-discovery:            *)
(*   build_modbus_definitions.py  (metric definition catalog)              *)
(*   build_register_defaults.py   (register default catalog)               *)
(*                                                                         *)
(* Text is modelled as a sequence of one-character strings, so that        *)
(* parsing, stripping and identifier derivation are computed, not assumed. *)
(* Python's None is the one-element sequence <<"None">>, which no text     *)
(* equals, since every other element is a single character.                *)
(***************************************************************************)
EXTENDS Integers, Sequences, FiniteSets, TLC

(***************************************************************************)
(* Bounds of the model.                                                    *)
(***************************************************************************)
\* rows read in one run, over all input tables
MaxRows == 2

(***************************************************************************)
(* Characters and text helpers (Python str methods and the re patterns).   *)
(***************************************************************************)
None == <<"None">>

Digits == <<"0", "1", "2", "3", "4", "5", "6", "7", "8", "9">>

UpperChars == <<"A", "B", "C", "D", "E", "F", "G", "H", "I", "J", "K", "L", "M",
                "N", "O", "P", "Q", "R", "S", "T", "U", "V", "W", "X", "Y", "Z">>

LowerChars == <<"a", "b", "c", "d", "e", "f", "g", "h", "i", "j", "k", "l", "m",
                "n", "o", "p", "q", "r", "s", "t", "u", "v", "w", "x", "y", "z">>

\* the characters of [a-z0-9_] in code point order: digits, "_", letters
IdChars == Digits \o <<"_">> \o LowerChars

Range(s) == {s[i] : i \in 1..Len(s)}

IsDigit(c) == c \in Range(Digits)

\* ord(c) of a character of [a-z0-9_], up to an order-preserving renumbering
Ord(c) == CHOOSE i \in 1..Len(IdChars) : IdChars[i] = c

DigitVal(c) == (CHOOSE i \in 1..Len(Digits) : Digits[i] = c) - 1

LowerChar(c) ==
    IF c \in Range(UpperChars)
    THEN LowerChars[CHOOSE i \in 1..Len(UpperChars) : UpperChars[i] = c]
    ELSE c

UpperChar(c) ==
    IF c \in Range(LowerChars)
    THEN UpperChars[CHOOSE i \in 1..Len(LowerChars) : LowerChars[i] = c]
    ELSE c

\* str.lower() and str.upper()
Lower(s) == [i \in 1..Len(s) |-> LowerChar(s[i])]

Upper(s) == [i \in 1..Len(s) |-> UpperChar(s[i])]

SetMin(S) == CHOOSE x \in S : \A y \in S : x <= y

SetMax(S) == CHOOSE x \in S : \A y \in S : x >= y

Max2(a, b) == IF a >= b THEN a ELSE b

\* s with the characters of the set cs removed from both ends
StripChars(s, cs) ==
    LET keep == {i \in 1..Len(s) : s[i] \notin cs}
    IN  IF keep = {} THEN <<>> ELSE SubSeq(s, SetMin(keep), SetMax(keep))

\* str.strip()
Strip(s) == StripChars(s, {" ", "\t"})

\* str.replace(a, b) for a single character a and a text b
RECURSIVE Replace(_, _, _)
Replace(s, a, b) ==
    IF s = <<>> THEN <<>>
    ELSE (IF Head(s) = a THEN b ELSE <<Head(s)>>) \o Replace(Tail(s), a, b)

\* re.sub(r"[^...]", "", s): only the characters of the set cs are kept
KeepOnly(s, cs) == SelectSeq(s, LAMBDA c : c \in cs)

\* re.sub(r"[^...]+", "_", s): every maximal run of characters outside cs
\* becomes one "_"
RECURSIVE SubRuns(_, _)
SubRuns(s, cs) ==
    IF s = <<>> THEN <<>>
    ELSE IF Head(s) \in cs THEN <<Head(s)>> \o SubRuns(Tail(s), cs)
    ELSE IF Len(s) > 1 /\ s[2] \notin cs THEN SubRuns(Tail(s), cs)
    ELSE <<"_">> \o SubRuns(Tail(s), cs)

\* re.sub(r"_+", "_", s)
RECURSIVE Collapse(_)
Collapse(s) ==
    IF s = <<>> THEN <<>>
    ELSE IF Head(s) = "_" /\ Len(s) > 1 /\ s[2] = "_" THEN Collapse(Tail(s))
    ELSE <<Head(s)>> \o Collapse(Tail(s))

\* sub in s
Contains(s, sub) ==
    \E i \in 1..(Len(s) - Len(sub) + 1) : SubSeq(s, i, i + Len(sub) - 1) = sub

\* str.title(): a letter is upper case after a non-letter, lower case otherwise
Title(s) ==
    [i \in 1..Len(s) |->
        IF i = 1 \/ LowerChar(s[i - 1]) \notin Range(LowerChars)
        THEN UpperChar(s[i]) ELSE LowerChar(s[i])]

\* truth value of an optional text: None and "" are false
Truthy(v) == v # None /\ v # <<>>

RECURSIVE DigitsVal(_)
DigitsVal(s) ==
    IF s = <<>> THEN 0 ELSE DigitsVal(SubSeq(s, 1, Len(s) - 1)) * 10 + DigitVal(s[Len(s)])

AllDigits(s) == \A i \in 1..Len(s) : IsDigit(s[i])

\* int(s): surrounding blanks and one sign are accepted; ok = FALSE is ValueError
ParseInt(s) ==
    LET t    == Strip(s)
        neg  == t # <<>> /\ Head(t) = "-"
        body == IF t # <<>> /\ Head(t) \in {"-", "+"} THEN Tail(t) ELSE t
    IN  IF body # <<>> /\ AllDigits(body)
        THEN [ok |-> TRUE, val |-> IF neg THEN 0 - DigitsVal(body) ELSE DigitsVal(body)]
        ELSE [ok |-> FALSE, val |-> 0]

\* float(s) for plain decimal text with at most three decimals; the value is
\* held in thousandths (1.0 is 1000); ok = FALSE is ValueError
ParseFloat(s) ==
    LET t     == Strip(s)
        neg   == t # <<>> /\ Head(t) = "-"
        body  == IF t # <<>> /\ Head(t) \in {"-", "+"} THEN Tail(t) ELSE t
        dots  == {i \in 1..Len(body) : body[i] = "."}
        dot   == IF dots = {} THEN Len(body) + 1 ELSE SetMin(dots)
        whole == SubSeq(body, 1, dot - 1)
        frac  == SubSeq(body, dot + 1, Len(body))
        pad   == frac \o SubSeq(<<"0", "0", "0">>, 1, 3 - Len(frac))
        mag   == DigitsVal(whole) * 1000 + DigitsVal(pad)
    IN  IF /\ Cardinality(dots) <= 1
           /\ AllDigits(whole) /\ AllDigits(frac)
           /\ Len(whole) + Len(frac) > 0
           /\ Len(frac) <= 3
        THEN [ok |-> TRUE, val |-> IF neg THEN 0 - mag ELSE mag]
        ELSE [ok |-> FALSE, val |-> 0]

(***************************************************************************)
(* build_modbus_definitions.py: constant tables.                           *)
(***************************************************************************)
\* CSV_DEFINITIONS: the model name of each input table, in order
CSV_DEFINITIONS == <<"SG50RS", "HYBRID">>

NUMERIC_TYPES ==
    << [tag |-> <<"U", "1", "6">>, type |-> "uint16", words |-> 1],
       [tag |-> <<"S", "1", "6">>, type |-> "int16", words |-> 1],
       [tag |-> <<"U", "3", "2">>, type |-> "uint32", words |-> 2],
       [tag |-> <<"S", "3", "2">>, type |-> "int32", words |-> 2],
       [tag |-> <<"U", "6", "4">>, type |-> "uint64", words |-> 4],
       [tag |-> <<"I", "E", "E", "E", "7", "5", "4">>, type |-> "float32", words |-> 2],
       [tag |-> <<"F", "L", "O", "A", "T">>, type |-> "float32", words |-> 2] >>

\* the ASCII keys of UNIT_CATEGORY
UNIT_CATEGORY ==
    << [unit |-> <<"v">>, category |-> "voltage"],
       [unit |-> <<"k", "v">>, category |-> "voltage"],
       [unit |-> <<"a">>, category |-> "current"],
       [unit |-> <<"k", "a">>, category |-> "current"],
       [unit |-> <<"h", "z">>, category |-> "frequency"],
       [unit |-> <<"k", "w", "h">>, category |-> "energy"],
       [unit |-> <<"w", "h">>, category |-> "energy"],
       [unit |-> <<"m", "w", "h">>, category |-> "energy"],
       [unit |-> <<"k", "w">>, category |-> "power"],
       [unit |-> <<"w">>, category |-> "power"],
       [unit |-> <<"k", "v", "a", "r">>, category |-> "reactive_power"],
       [unit |-> <<"k", "v", "a", "r", "h">>, category |-> "reactive_energy"],
       [unit |-> <<"k", "v", "a">>, category |-> "apparent_power"],
       [unit |-> <<"p", "e", "r", "c", "e", "n", "t">>, category |-> "percentage"],
       [unit |-> <<"%">>, category |-> "percentage"],
       [unit |-> <<"c">>, category |-> "temperature"],
       [unit |-> <<"k", "o", "h", "m">>, category |-> "resistance"] >>

DISCOVERY_BY_CATEGORY == {"power", "energy", "voltage", "current", "frequency"}

meter_power == <<"m", "e", "t", "e", "r", "_", "p", "o", "w", "e", "r">>

grid_import_energy == <<"g", "r", "i", "d", "_", "i", "m", "p", "o", "r", "t", "_", "e", "n", "e", "r", "g", "y">>

grid_export_energy == <<"g", "r", "i", "d", "_", "e", "x", "p", "o", "r", "t", "_", "e", "n", "e", "r", "g", "y">>

SPECIAL_DISCOVERY ==
    << [id |-> meter_power, method |-> "power",
        prompt |-> "Meter Active Power (kW) [press Enter to skip]: ", input_unit |-> "kW"],
       [id |-> grid_import_energy, method |-> "energy",
        prompt |-> "Forward Active Energy (MWh) [press Enter to skip]: ", input_unit |-> "MWh"],
       [id |-> grid_export_energy, method |-> "energy",
        prompt |-> "Reverse Active Energy (MWh) [press Enter to skip]: ", input_unit |-> "MWh"] >>

\* FALLBACK_METRICS, in the order of the dict
FALLBACK_METRICS ==
    << [id |-> meter_power, overrides |-> << [model |-> "SG50RS", register |-> 5600] >>],
       [id |-> grid_import_energy, overrides |-> << [model |-> "SG50RS", register |-> 5098] >>],
       [id |-> grid_export_energy, overrides |-> << [model |-> "SG50RS", register |-> 5094] >>] >>

(***************************************************************************)
(* build_modbus_definitions.py: the functions on one row.                  *)
(* A row is the dict csv.DictReader yields: one text per column, or None   *)
(* for a column the line has no cell for.                                  *)
(***************************************************************************)
sanitise_metric_id(name) ==
    LET lowered  == Lower(Strip(name))
        replaced == Replace(Replace(lowered, " ", <<"_">>), "-", <<"_">>)
        kept     == KeepOnly(replaced, Range(IdChars))
    IN  StripChars(Collapse(kept), {"_"})

\* the characters of the class [a-zA-Z%] of base_unit's pattern (ASCII part)
UnitChars == Range(LowerChars) \cup Range(UpperChars) \cup {"%"}

base_unit(unit) ==
    LET tail == {i \in 1..Len(unit) : \A j \in i..Len(unit) : unit[j] \in UnitChars}
    IN  IF unit = <<>> THEN <<>>
        ELSE IF tail # {} THEN SubSeq(unit, SetMin(tail), Len(unit))
        ELSE unit

\* UNIT_CATEGORY.get(unit.lower()); "null" is None
classify_unit(unit) ==
    LET key  == Lower(unit)
        hits == {i \in 1..Len(UNIT_CATEGORY) : UNIT_CATEGORY[i].unit = key}
    IN  IF hits = {} THEN "null" ELSE UNIT_CATEGORY[CHOOSE i \in hits : TRUE].category

\* row["data_type"].strip().upper()
DataTypeOf(r) == Upper(Strip(r.data_type))

Recognized(tag) == \E i \in 1..Len(NUMERIC_TYPES) : NUMERIC_TYPES[i].tag = tag

NumericType(tag) == NUMERIC_TYPES[CHOOSE i \in 1..Len(NUMERIC_TYPES) : NUMERIC_TYPES[i].tag = tag]

\* register: int(address_start) when the cell is non-empty and parses; ok = FALSE is None
RegisterOf(r) ==
    IF Truthy(r.address_start) THEN ParseInt(r.address_start) ELSE [ok |-> FALSE, val |-> 0]

\* WordsOf, were the address span taken without the max against the default
WordsOf_SpanOnly(r) ==
    LET default_words == NumericType(DataTypeOf(r)).words
        last          == ParseInt(r.address_end)
    IN  IF Truthy(r.address_end) /\ last.ok
        THEN last.val - RegisterOf(r).val + 1
        ELSE default_words

\* words: the type's default, raised to the address span when address_end parses
WordsOf(r) ==
    LET default_words == NumericType(DataTypeOf(r)).words
        last          == ParseInt(r.address_end)
    IN  IF Truthy(r.address_end) /\ last.ok
        THEN Max2(default_words, last.val - RegisterOf(r).val + 1)
        ELSE default_words

\* scale_factor, in thousandths: 1.0 unless the cell is non-empty and parses
ScaleOf(r) ==
    IF Truthy(r.scale_factor) /\ ParseFloat(r.scale_factor).ok
    THEN ParseFloat(r.scale_factor).val
    ELSE 1000

\* What one pass of the row loop does with row r: "raise" (an AttributeError
\* of .strip() on None leaves build_definitions), "skip" (continue) or "merge".
RowOutcome(r) ==
    IF r.data_type = None THEN "raise"
    ELSE IF ~Recognized(DataTypeOf(r)) THEN "skip"
    ELSE IF ~RegisterOf(r).ok THEN "skip"
    ELSE IF r.name = None THEN "raise"
    ELSE IF sanitise_metric_id(r.name) = <<>> THEN "skip"
    ELSE IF r.unit = None THEN "raise"
    ELSE IF r.register_type = None THEN "raise"
    ELSE "merge"

\* the dict that setdefault is given for a row that reaches the merge
RowMetric(r) ==
    LET engineering_unit == base_unit(Strip(r.unit))
    IN  [id        |-> sanitise_metric_id(r.name),
         name      |-> Strip(r.name),
         unit      |-> IF engineering_unit # <<>> THEN engineering_unit ELSE None,
         category  |-> IF engineering_unit # <<>> THEN classify_unit(engineering_unit) ELSE "null",
         default   |-> <<>>,
         models    |-> <<>>,
         read      |-> [function |-> IF Strip(r.register_type) = <<"3", "X">>
                                     THEN "input" ELSE "holding",
                        words    |-> WordsOf(r),
                        type     |-> NumericType(DataTypeOf(r)).type,
                        scale    |-> ScaleOf(r)],
         discovery |-> <<>>]

(***************************************************************************)
(* The metrics dict: a sequence of metric dicts in insertion order, ids    *)
(* distinct.  A models dict is a sequence of [model, register] in          *)
(* insertion order.                                                        *)
(***************************************************************************)
HasId(ms, id) == \E i \in 1..Len(ms) : ms[i].id = id

IndexOf(ms, id) == CHOOSE i \in 1..Len(ms) : ms[i].id = id

HasModel(models, model) == \E j \in 1..Len(models) : models[j].model = model

ModelIndex(models, model) == CHOOSE j \in 1..Len(models) : models[j].model = model

\* metrics.setdefault(metric_id, fresh): the dict is unchanged when the id is present
SetDefault(ms, fresh) == IF HasId(ms, fresh.id) THEN ms ELSE Append(ms, fresh)

\* SetRegister, were the register of a model already present kept
SetRegister_KeepFirst(models, model, register) ==
    IF HasModel(models, model)
    THEN models
    ELSE Append(models, [model |-> model, register |-> register])

\* models.setdefault(model, {})["register"] = register
SetRegister(models, model, register) ==
    IF HasModel(models, model)
    THEN [models EXCEPT ![ModelIndex(models, model)].register = register]
    ELSE Append(models, [model |-> model, register |-> register])

\* MergeRow, were the read fields assigned on every merge instead of set by
\* setdefault
MergeRow_OverwriteRead(ms, model, r) ==
    LET with == SetDefault(ms, RowMetric(r))
        i    == IndexOf(with, sanitise_metric_id(r.name))
    IN  [with EXCEPT ![i].models = SetRegister(with[i].models, model, RegisterOf(r).val),
                     ![i].read = RowMetric(r).read]

\* lines 162-179: the merge of one accepted row of the table of model
MergeRow(ms, model, r) ==
    LET with == SetDefault(ms, RowMetric(r))
        i    == IndexOf(with, sanitise_metric_id(r.name))
    IN  [with EXCEPT ![i].models = SetRegister(with[i].models, model, RegisterOf(r).val)]

\* the dict the fallback pass gives setdefault for metric_id
FallbackMetric(metric_id) ==
    [id        |-> metric_id,
     name      |-> Title(Replace(metric_id, "_", <<" ">>)),
     unit      |-> IF Contains(metric_id, <<"p", "o", "w", "e", "r">>)
                   THEN <<"W">> ELSE <<"k", "W", "h">>,
     category  |-> IF Contains(metric_id, <<"p", "o", "w", "e", "r">>) THEN "power" ELSE "energy",
     default   |-> <<>>,
     models    |-> <<>>,
     read      |-> [function |-> "input",
                    words    |-> IF metric_id = meter_power THEN 1 ELSE 2,
                    type     |-> IF metric_id = meter_power THEN "int16" ELSE "uint32le",
                    scale    |-> IF metric_id = meter_power THEN 1000 ELSE 100],
     discovery |-> <<>>]

\* SetRegisters, were only the models the metric lacks given a register
RECURSIVE SetRegisters_OnlyMissing(_, _)
SetRegisters_OnlyMissing(models, overrides) ==
    IF overrides = <<>> THEN models
    ELSE SetRegisters_OnlyMissing(
             IF HasModel(models, Head(overrides).model) THEN models
             ELSE SetRegister(models, Head(overrides).model, Head(overrides).register),
             Tail(overrides))

RECURSIVE SetRegisters(_, _)
SetRegisters(models, overrides) ==
    IF overrides = <<>> THEN models
    ELSE SetRegisters(SetRegister(models, Head(overrides).model, Head(overrides).register),
                      Tail(overrides))

\* ApplyOverride, were the hand-authored dict assigned instead of given to
\* setdefault
ApplyOverride_ResetShape(ms, entry) ==
    LET with == SetDefault(ms, FallbackMetric(entry.id))
        i    == IndexOf(with, entry.id)
    IN  [with EXCEPT ![i] = [FallbackMetric(entry.id) EXCEPT
                                !.models = SetRegisters(with[i].models, entry.overrides)]]

\* lines 182-200: one entry of FALLBACK_METRICS applied
ApplyOverride(ms, entry) ==
    LET with == SetDefault(ms, FallbackMetric(entry.id))
        i    == IndexOf(with, entry.id)
    IN  [with EXCEPT ![i].models = SetRegisters(with[i].models, entry.overrides)]

\* lines 181-200: the fallback pass
RECURSIVE ApplyOverrides(_, _)
ApplyOverrides(ms, entries) ==
    IF entries = <<>> THEN ms
    ELSE ApplyOverrides(ApplyOverride(ms, Head(entries)), Tail(entries))

ApplyFallback(ms) == ApplyOverrides(ms, FALLBACK_METRICS)

\* DefaultOf, were the last key of models taken
DefaultOf_LastModel(metric) ==
    IF metric.models # <<>> THEN <<metric.models[Len(metric.models)].register>>
    ELSE metric.default

\* lines 203-208: default.register from the first key of models
DefaultOf(metric) ==
    IF metric.models # <<>> THEN <<metric.models[1].register>> ELSE metric.default

\* lines 210-217: the authored policy of the id, else the category's, else none
DiscoveryOf(metric) ==
    LET special == {i \in 1..Len(SPECIAL_DISCOVERY) : SPECIAL_DISCOVERY[i].id = metric.id}
    IN  IF special # {}
        THEN LET d == SPECIAL_DISCOVERY[CHOOSE i \in special : TRUE]
             IN  << [method |-> d.method, prompt |-> d.prompt, input_unit |-> d.input_unit] >>
        ELSE IF metric.category \in DISCOVERY_BY_CATEGORY
        THEN << [method |-> metric.category, prompt |-> "", input_unit |-> ""] >>
        ELSE metric.discovery

\* lines 202-217: the pass over metrics.values()
Finalize(ms) ==
    [i \in 1..Len(ms) |->
        [ms[i] EXCEPT !.default = DefaultOf(ms[i]), !.discovery = DiscoveryOf(ms[i])]]

\* a < b for two texts over [a-z0-9_], as Python compares str
RECURSIVE LexLess(_, _)
LexLess(a, b) ==
    IF b = <<>> THEN FALSE
    ELSE IF a = <<>> THEN TRUE
    ELSE IF Head(a) # Head(b) THEN Ord(Head(a)) < Ord(Head(b))
    ELSE LexLess(Tail(a), Tail(b))

\* m put into the sorted sequence ms after every element whose id is not greater
RECURSIVE InsertById(_, _)
InsertById(ms, m) ==
    IF ms = <<>> THEN <<m>>
    ELSE IF LexLess(m.id, Head(ms).id) THEN <<m>> \o ms
    ELSE <<Head(ms)>> \o InsertById(Tail(ms), m)

RECURSIVE SortFrom(_, _)
SortFrom(sorted, rest) ==
    IF rest = <<>> THEN sorted ELSE SortFrom(InsertById(sorted, Head(rest)), Tail(rest))

\* SortedById, were the dict's values returned in insertion order
SortedById_Unsorted(ms) == ms

\* sorted(metrics.values(), key=lambda m: m["id"]): a stable sort
SortedById(ms) == SortFrom(<<>>, ms)

(***************************************************************************)
(* build_register_defaults.py                                              *)
(***************************************************************************)
\* CSV_DEFINITIONS of build_register_defaults.py: the inverter types, in order
REG_CSV_DEFINITIONS == <<"STRING", "HYBRID">>

\* load_rows: every value is (value or "").strip()
LoadedRow(r) == [f \in DOMAIN r |-> IF r[f] = None THEN <<>> ELSE Strip(r[f])]

RECURSIVE ReplaceAll(_, _, _)
ReplaceAll(s, chars, b) ==
    IF chars = <<>> THEN s ELSE ReplaceAll(Replace(s, Head(chars), b), Tail(chars), b)

\* sanitize_key, for ASCII text
sanitize_key(value) ==
    Replace(ReplaceAll(Lower(value), <<"/", "-", "(", ")", ".", ",", ":", ";">>, <<" ">>),
            "%", <<" ", "p", "e", "r", "c", "e", "n", "t", " ">>)

slugify(value) ==
    LET sanitized == SubRuns(sanitize_key(value), Range(Digits) \cup Range(LowerChars))
        trimmed   == StripChars(sanitized, {"_"})
    IN  IF trimmed # <<>> THEN trimmed ELSE <<"r", "e", "g", "i", "s", "t", "e", "r">>

\* parse_float, in thousandths
parse_float(value) ==
    IF ~Truthy(value) THEN 1000
    ELSE IF ParseFloat(value).ok THEN ParseFloat(value).val
    ELSE 1000

\* lines 79-85: a row is kept when its start address is non-empty and parses
RegKept(row) == Truthy(row.address_start) /\ ParseInt(row.address_start).ok

\* lines 87-113: the entry appended for a kept row (the columns no, data_range
\* and note are copied like unit and are left out)
RegEntry(row) ==
    LET start         == ParseInt(row.address_start).val
        address_end   == IF Truthy(row.address_end) THEN row.address_end ELSE row.address_start
        end           == IF ParseInt(address_end).ok THEN ParseInt(address_end).val ELSE start
        register_type == Upper(IF Truthy(row.register_type) THEN row.register_type ELSE <<"3", "X">>)
    IN  [id            |-> slugify(row.name),
         name          |-> row.name,
         address       |-> start,
         length        |-> Max2(1, end - start + 1),
         data_type     |-> Upper(row.data_type),
         unit          |-> IF Truthy(row.unit) THEN row.unit ELSE None,
         scale_factor  |-> parse_float(row.scale_factor),
         register_type |-> IF Head(register_type) = "4" THEN "holding" ELSE "input"]

\* NextVersion, were every kept row with a source_version to replace it
NextVersion_Latest(current, row) ==
    IF row.source_version # <<>> THEN row.source_version ELSE current

\* lines 96-97: source_version after a kept row
NextVersion(current, row) == IF current = <<>> THEN row.source_version ELSE current

\* (address, length) of a before that of b, as Python compares tuples
KeyLess(a, b) == a.address < b.address \/ (a.address = b.address /\ a.length < b.length)

RECURSIVE InsertByKey(_, _)
InsertByKey(es, e) ==
    IF es = <<>> THEN <<e>>
    ELSE IF KeyLess(e, Head(es)) THEN <<e>> \o es
    ELSE <<Head(es)>> \o InsertByKey(Tail(es), e)

RECURSIVE SortEntriesFrom(_, _)
SortEntriesFrom(sorted, rest) ==
    IF rest = <<>> THEN sorted
    ELSE SortEntriesFrom(InsertByKey(sorted, Head(rest)), Tail(rest))

\* registers.sort(key=lambda entry: (entry["address"], entry["length"])): stable
SortedByKey(es) == SortEntriesFrom(<<>>, es)

\* lines 117-120: the bucket build_registers returns
Bucket(inverter_type, version, es) ==
    [inverter_type  |-> inverter_type,
     source_version |-> IF version # <<>> THEN version ELSE None,
     registers      |-> SortedByKey(es)]

(***************************************************************************)
(* Input rows.  BaseRow is one well-formed line; RowSet is every line that *)
(* differs from it in at most one cell, the cell taking any value of its   *)
(* column's set.  A short line lacks the cell of the table's last column.  *)
(***************************************************************************)
Columns == {"name", "data_type", "address_start", "address_end", "scale_factor",
            "unit", "register_type", "source_version"}

CellValues ==
    [name           |-> {<<"M", "e", "t", "e", "r", " ", "P", "o", "w", "e", "r">>, <<"m", "e", "t", "e", "r", "-", "p", "o", "w", "e", "r">>, <<"A">>, <<"!">>},
     data_type      |-> {<<"U", "1", "6">>, <<"s", "3", "2">>, <<"X", "Y", "Z">>},
     address_start  |-> {<<"1", "0">>, <<"1", "2">>, <<>>, <<"x">>},
     address_end    |-> {<<"1", "1">>, <<"1", "3">>, <<>>, <<"x">>},
     scale_factor   |-> {<<>>, <<"0", ".", "1">>, <<"x">>},
     unit           |-> {<<"k", "W">>, <<"0", ".", "1", "k", "W", "h">>, <<>>},
     register_type  |-> {<<"3", "X">>, <<"4", "X">>, <<>>},
     source_version |-> {<<"v", "1">>, <<"v", "2">>, <<>>}]

BaseRow ==
    [name           |-> <<"M", "e", "t", "e", "r", " ", "P", "o", "w", "e", "r">>,
     data_type      |-> <<"U", "1", "6">>,
     address_start  |-> <<"1", "0">>,
     address_end    |-> <<"1", "1">>,
     scale_factor   |-> <<>>,
     unit           |-> <<"k", "W">>,
     register_type  |-> <<"3", "X">>,
     source_version |-> <<"v", "1">>]

\* the columns build_definitions reads; any other column is ignored by it
DefColumns == Columns \ {"source_version"}

\* the lines that differ from BaseRow in at most one cell of the columns cols
RowSet(cols) ==
    {[BaseRow EXCEPT ![c] = v] : <<c, v>> \in UNION {{c} \X CellValues[c] : c \in cols}}

\* the columns a table's header may end with
LastColumns == {"data_type", "unit", "address_end"}

\* the short line of a table whose header ends with column last
ShortRow(last) == [BaseRow EXCEPT ![last] = None]

\* the lines the table being read may hold next, each with the last column
\* of the header as known after the line
Lines(cols, known) ==
    {[row |-> r, last |-> known] : r \in RowSet(cols)}
    \cup {[row |-> ShortRow(c), last |-> c] :
            c \in IF known = "" THEN LastColumns ELSE {known}}

(***************************************************************************)
(* State.                                                                  *)
(***************************************************************************)
VARIABLES
    prog,            \* which builder's main runs: "definitions" or "registers"
    pc,              \* position of the run
    k,               \* index of the current entry of CSV_DEFINITIONS
    lastcol,         \* last column of the header of the table being read,
                     \* "" until a short line has shown it
    exists,          \* the file system: does the table of each definition exist
    consumed,        \* the indices of the tables read to their end
    log,             \* the rows load_rows has yielded so far, each with the index
                     \* of its table and what the pass of the row loop made of
                     \* it: the outcome and the locals metric_id and register
    error,           \* the exception that left main, "" when none
    written,         \* OUTPUT_PATH.write_text has run
    metrics,         \* build_definitions: the metrics dict
    output,          \* build_definitions: the "metrics" list returned
    registers,       \* build_registers: the registers list
    source_version,  \* build_registers: the source_version local
    payload          \* build_payload: the buckets of payload["inverter_types"]

vars == <<prog, pc, k, lastcol, exists, consumed, log, error, written, metrics, output,
          registers, source_version, payload>>

defVars == <<metrics, output>>

regVars == <<registers, source_version, payload>>

Init ==
    /\ prog \in {"definitions", "registers"}
    /\ pc = "open"
    /\ k = 1
    /\ lastcol = ""
    /\ exists \in [1..Len(CSV_DEFINITIONS) -> BOOLEAN]
    /\ consumed = {}
    /\ log = <<>>
    /\ error = ""
    /\ written = FALSE
    /\ metrics = <<>>
    /\ output = <<>>
    /\ registers = <<>>
    /\ source_version = <<>>
    /\ payload = <<>>

(***************************************************************************)
(* main of build_modbus_definitions.py                                     *)
(***************************************************************************)
\* DefMissing, were a missing table passed over instead of raised
DefMissing_SkipTable ==
    /\ prog = "definitions" /\ pc = "open"
    /\ ~exists[k]
    /\ IF k < Len(CSV_DEFINITIONS)
       THEN k' = k + 1 /\ pc' = "open"
       ELSE k' = k /\ pc' = "fallback"
    /\ UNCHANGED <<prog, exists, consumed, lastcol, log, error, written, defVars, regVars>>

\* lines 127-128: the table of the current definition does not exist
DefMissing ==
    /\ prog = "definitions" /\ pc = "open"
    /\ ~exists[k]
    /\ pc' = "aborted"
    /\ error' = "FileNotFoundError"
    /\ UNCHANGED <<prog, exists, consumed, k, lastcol, log, written, defVars, regVars>>

\* lines 126-130: the table exists and load_rows opens it
DefOpen ==
    /\ prog = "definitions" /\ pc = "open"
    /\ exists[k]
    /\ pc' = "rows"
    /\ UNCHANGED <<prog, exists, consumed, k, lastcol, log, error, written, defVars, regVars>>

\* lines 130-179: one pass of the row loop
DefRow ==
    /\ prog = "definitions" /\ pc = "rows"
    /\ Len(log) < MaxRows
    /\ \E line \in Lines(DefColumns, lastcol) :
        LET r       == line.row
            outcome == RowOutcome(r)
        IN  /\ lastcol' = line.last
            /\ log' = Append(log, [table     |-> k,
                                   row       |-> r,
                                   outcome   |-> outcome,
                                   metric_id |-> IF outcome = "merge"
                                                 THEN sanitise_metric_id(r.name) ELSE <<>>,
                                   register  |-> IF outcome = "merge"
                                                 THEN RegisterOf(r).val ELSE 0])
            /\ metrics' = IF outcome = "merge"
                          THEN MergeRow(metrics, CSV_DEFINITIONS[k], r)
                          ELSE metrics
            /\ pc' = IF outcome = "raise" THEN "aborted" ELSE "rows"
            /\ error' = IF outcome = "raise" THEN "AttributeError" ELSE error
    /\ UNCHANGED <<prog, exists, consumed, k, written, output, regVars>>

\* line 130, line 125: the table is exhausted; the next definition, or the
\* end of the loop over CSV_DEFINITIONS
DefEnd ==
    /\ prog = "definitions" /\ pc = "rows"
    /\ IF k < Len(CSV_DEFINITIONS)
       THEN k' = k + 1 /\ pc' = "open"
       ELSE k' = k /\ pc' = "fallback"
    /\ lastcol' = ""
    /\ consumed' = consumed \cup {k}
    /\ UNCHANGED <<prog, exists, log, error, written, defVars, regVars>>

\* lines 181-200
DefFallback ==
    /\ prog = "definitions" /\ pc = "fallback"
    /\ metrics' = ApplyFallback(metrics)
    /\ pc' = "finalize"
    /\ UNCHANGED <<prog, exists, consumed, k, lastcol, log, error, written, output, regVars>>

\* lines 202-223: the pass over metrics.values(), then the sorted catalog
DefReturn ==
    /\ prog = "definitions" /\ pc = "finalize"
    /\ metrics' = Finalize(metrics)
    /\ output' = SortedById(Finalize(metrics))
    /\ pc' = "returned"
    /\ UNCHANGED <<prog, exists, consumed, k, lastcol, log, error, written, regVars>>

\* lines 227-229
DefWrite ==
    /\ prog = "definitions" /\ pc = "returned"
    /\ written' = TRUE
    /\ pc' = "done"
    /\ UNCHANGED <<prog, exists, consumed, k, lastcol, log, error, defVars, regVars>>

(***************************************************************************)
(* main of build_register_defaults.py                                      *)
(***************************************************************************)
\* lines 69, 78: path.open raises for a table that does not exist
RegMissing ==
    /\ prog = "registers" /\ pc = "open"
    /\ ~exists[k]
    /\ pc' = "aborted"
    /\ error' = "FileNotFoundError"
    /\ UNCHANGED <<prog, exists, consumed, k, lastcol, log, written, defVars, regVars>>

\* lines 76-78: build_registers starts on a table that exists
RegOpen ==
    /\ prog = "registers" /\ pc = "open"
    /\ exists[k]
    /\ registers' = <<>>
    /\ source_version' = <<>>
    /\ pc' = "rows"
    /\ UNCHANGED <<prog, exists, consumed, k, lastcol, log, error, written, defVars, payload>>

\* lines 78-113: one pass of the row loop
RegRow ==
    /\ prog = "registers" /\ pc = "rows"
    /\ Len(log) < MaxRows
    /\ \E line \in Lines(Columns, lastcol) :
        LET row == LoadedRow(line.row)
        IN  /\ lastcol' = line.last
            /\ log' = Append(log, [table     |-> k,
                                   row       |-> row,
                                   outcome   |-> IF RegKept(row) THEN "kept" ELSE "dropped",
                                   metric_id |-> <<>>,
                                   register  |-> 0])
            /\ IF RegKept(row)
               THEN /\ source_version' = NextVersion(source_version, row)
                    /\ registers' = Append(registers, RegEntry(row))
               ELSE UNCHANGED <<source_version, registers>>
    /\ UNCHANGED <<prog, exists, consumed, pc, k, error, written, defVars, payload>>

\* lines 115-120, 132-136: the table is exhausted; its bucket is stored
RegEnd ==
    /\ prog = "registers" /\ pc = "rows"
    /\ payload' = Append(payload, Bucket(REG_CSV_DEFINITIONS[k], source_version, registers))
    /\ IF k < Len(REG_CSV_DEFINITIONS)
       THEN k' = k + 1 /\ pc' = "open"
       ELSE k' = k /\ pc' = "returned"
    /\ lastcol' = ""
    /\ consumed' = consumed \cup {k}
    /\ UNCHANGED <<prog, exists, log, error, written, defVars, registers, source_version>>

\* lines 140-142
RegWrite ==
    /\ prog = "registers" /\ pc = "returned"
    /\ written' = TRUE
    /\ pc' = "done"
    /\ UNCHANGED <<prog, exists, consumed, k, lastcol, log, error, defVars, regVars>>

Next ==
    \/ DefMissing \/ DefOpen \/ DefRow \/ DefEnd
    \/ DefFallback \/ DefReturn \/ DefWrite
    \/ RegMissing \/ RegOpen \/ RegRow \/ RegEnd \/ RegWrite

Spec == Init /\ [][Next]_vars

(***************************************************************************)
(* Vocabulary of the properties: the rows of the log and what became of    *)
(* them.                                                                   *)
(***************************************************************************)
InDefinitions == prog = "definitions"

InRegisters == prog = "registers"

\* indices of the log rows that build_definitions merged
MergedRows == {i \in 1..Len(log) : log[i].outcome = "merge"}

IdAt(i) == log[i].metric_id

ModelAt(i) == CSV_DEFINITIONS[log[i].table]

RegisterAt(i) == log[i].register

\* indices of the merged rows that derive id, and of those of one model
RowsOfId(id) == {i \in MergedRows : IdAt(i) = id}

RowsOfIdModel(id, model) == {i \in RowsOfId(id) : ModelAt(i) = model}

\* the metrics of the dict that carry id
MetricsOfId(id) == {x \in 1..Len(metrics) : metrics[x].id = id}

RegisterIn(metric, model) == metric.models[ModelIndex(metric.models, model)].register

\* the fallback pass has run
AfterFallback == pc \in {"finalize", "returned", "done"}

\* the register FALLBACK_METRICS lists for (id, model), as a set of at most one
FallbackRegisters(id, model) ==
    UNION {{FALLBACK_METRICS[e].overrides[o].register :
                o \in {o \in 1..Len(FALLBACK_METRICS[e].overrides) :
                          FALLBACK_METRICS[e].overrides[o].model = model}} :
            e \in {e \in 1..Len(FALLBACK_METRICS) : FALLBACK_METRICS[e].id = id}}

FallbackIds == {FALLBACK_METRICS[e].id : e \in 1..Len(FALLBACK_METRICS)}

\* the step of the fallback pass
FallbackStep == InDefinitions /\ pc = "fallback" /\ pc' = "finalize"

(***************************************************************************)
(* C1: two merged rows of different models that derive the same            *)
(* identifier give exactly one metric whose models mapping holds both      *)
(* model names, each with that row's address_start as register, and whose  *)
(* read-shape fields are those of the row merged first.                    *)
(***************************************************************************)
\* the claim as stated: the registers are those of the two rows
C1_AsStated ==
    InDefinitions =>
        \A i \in MergedRows : \A j \in MergedRows :
            (i < j /\ IdAt(i) = IdAt(j) /\ ModelAt(i) # ModelAt(j)) =>
                /\ Cardinality(MetricsOfId(IdAt(i))) = 1
                /\ LET m == metrics[IndexOf(metrics, IdAt(i))]
                   IN  /\ HasModel(m.models, ModelAt(i))
                       /\ HasModel(m.models, ModelAt(j))
                       /\ RegisterIn(m, ModelAt(i)) = RegisterAt(i)
                       /\ RegisterIn(m, ModelAt(j)) = RegisterAt(j)
                       /\ m.read = RowMetric(log[i].row).read

\* the register each model has in the metric of id: the fallback table's once
\* the fallback pass has run and lists it, else that of the model's last row
ExpectedRegister(id, model) ==
    IF AfterFallback /\ FallbackRegisters(id, model) # {}
    THEN CHOOSE r \in FallbackRegisters(id, model) : TRUE
    ELSE RegisterAt(SetMax(RowsOfIdModel(id, model)))

\* C1 as amended: one metric, both models present, each model's register that
\* of its last merged row for the identifier (or the fallback table's after
\* the fallback pass), read-shape that of the first merged row of the identifier
C1_MergeAcrossModels ==
    InDefinitions =>
        \A i \in MergedRows : \A j \in MergedRows :
            (i < j /\ IdAt(i) = IdAt(j) /\ ModelAt(i) # ModelAt(j)) =>
                /\ Cardinality(MetricsOfId(IdAt(i))) = 1
                /\ LET m == metrics[IndexOf(metrics, IdAt(i))]
                   IN  /\ HasModel(m.models, ModelAt(i))
                       /\ HasModel(m.models, ModelAt(j))
                       /\ RegisterIn(m, ModelAt(i)) = ExpectedRegister(IdAt(i), ModelAt(i))
                       /\ RegisterIn(m, ModelAt(j)) = ExpectedRegister(IdAt(j), ModelAt(j))
                       /\ m.read = RowMetric(log[SetMin(RowsOfId(IdAt(i)))].row).read

\* two rows of different models with the same identifier and different
\* read-shapes have been merged and the catalog was written
C1_Witness ==
    /\ InDefinitions /\ pc = "done"
    /\ \E i \in MergedRows : \E j \in MergedRows :
        /\ i < j /\ IdAt(i) = IdAt(j) /\ ModelAt(i) # ModelAt(j)
        /\ RowMetric(log[i].row).read # RowMetric(log[j].row).read

(***************************************************************************)
(* C2: the fallback pass leaves the read fields, name, unit and category   *)
(* of a metric that exists from the source rows unchanged; only its models *)
(* mapping may change.                                                     *)
(***************************************************************************)
C2_FallbackFrame ==
    [][FallbackStep =>
        \A x \in 1..Len(metrics) :
            /\ Cardinality({y \in 1..Len(metrics') : metrics'[y].id = metrics[x].id}) = 1
            /\ LET after == metrics'[IndexOf(metrics', metrics[x].id)]
               IN  after = [metrics[x] EXCEPT !.models = after.models]]_vars

\* the fallback pass has run over a source metric with a fallback identifier
\* whose read fields differ from the hand-authored ones
C2_Witness ==
    /\ InDefinitions /\ pc = "finalize"
    /\ \E i \in MergedRows :
        /\ IdAt(i) \in FallbackIds
        /\ RowMetric(log[i].row).read # FallbackMetric(IdAt(i)).read
        /\ RowMetric(log[i].row).name # FallbackMetric(IdAt(i)).name

(***************************************************************************)
(* C3: the fallback pass creates the metric when its identifier is absent, *)
(* or adds only the per-model registers that are missing: a register the   *)
(* source rows gave for (M, X) survives the pass.                          *)
(***************************************************************************)
\* the claim as stated: every source register survives the fallback pass
C3_AsStated ==
    [][FallbackStep =>
        \A x \in 1..Len(metrics) : \A j \in 1..Len(metrics[x].models) :
            LET after == metrics'[IndexOf(metrics', metrics[x].id)]
                model == metrics[x].models[j].model
            IN  /\ HasModel(after.models, model)
                /\ RegisterIn(after, model) = metrics[x].models[j].register]_vars

\* C3 as amended: the pass creates the absent fallback metrics and no other,
\* gives every listed (M, X) the table's register, also over a register
\* of the source rows, and leaves every register not listed as it was
C3_FallbackRegisters ==
    [][FallbackStep =>
        /\ {metrics'[y].id : y \in 1..Len(metrics')}
              = {metrics[x].id : x \in 1..Len(metrics)} \cup FallbackIds
        /\ Len(metrics') = Cardinality({metrics'[y].id : y \in 1..Len(metrics')})
        /\ \A e \in 1..Len(FALLBACK_METRICS) : \A o \in 1..Len(FALLBACK_METRICS[e].overrides) :
              LET after == metrics'[IndexOf(metrics', FALLBACK_METRICS[e].id)]
                  entry == FALLBACK_METRICS[e].overrides[o]
              IN  /\ HasModel(after.models, entry.model)
                  /\ RegisterIn(after, entry.model) = entry.register
        /\ \A x \in 1..Len(metrics) : \A j \in 1..Len(metrics[x].models) :
              LET after == metrics'[IndexOf(metrics', metrics[x].id)]
                  model == metrics[x].models[j].model
              IN  /\ HasModel(after.models, model)
                  /\ FallbackRegisters(metrics[x].id, model) = {} =>
                        RegisterIn(after, model) = metrics[x].models[j].register]_vars

\* the fallback pass has run over a metric for which the source rows gave a
\* listed model a register other than the table's, and another model a register
C3_Witness ==
    /\ InDefinitions /\ pc = "finalize"
    /\ \E i \in MergedRows : \E j \in MergedRows :
        /\ IdAt(i) = IdAt(j)
        /\ FallbackRegisters(IdAt(i), ModelAt(i)) # {}
        /\ RegisterAt(i) \notin FallbackRegisters(IdAt(i), ModelAt(i))
        /\ FallbackRegisters(IdAt(j), ModelAt(j)) = {}

(***************************************************************************)
(* C4: in the returned catalog every metric has default.register, equal to *)
(* the register of the first model encountered for the metric; later       *)
(* models and fallback additions for other models do not change it.        *)
(***************************************************************************)
\* the first model encountered for id: that of its first merged row, else the
\* first model the fallback table lists for it
FirstModel(id) ==
    IF RowsOfId(id) # {}
    THEN ModelAt(SetMin(RowsOfId(id)))
    ELSE FALLBACK_METRICS[CHOOSE e \in 1..Len(FALLBACK_METRICS) :
                              FALLBACK_METRICS[e].id = id].overrides[1].model

\* C4: every returned metric has default.register, the register of the first
\* model encountered for it
C4_DefaultRegister ==
    (InDefinitions /\ pc \in {"returned", "done"}) =>
        \A x \in 1..Len(output) :
            /\ HasModel(output[x].models, FirstModel(output[x].id))
            /\ output[x].default = <<RegisterIn(output[x], FirstModel(output[x].id))>>

\* a returned metric met first in the second table, to which the fallback
\* pass then added another model with another register
C4_Witness ==
    /\ InDefinitions /\ pc = "done"
    /\ \E x \in 1..Len(output) :
        /\ FirstModel(output[x].id) = "HYBRID"
        /\ Len(output[x].models) = 2
        /\ output[x].models[2].register # output[x].models[1].register
        /\ output[x].default = <<output[x].models[1].register>>

(***************************************************************************)
(* C5: the returned metrics are strictly ascending by id, and the          *)
(* registers of every bucket are ascending by (address, length).           *)
(***************************************************************************)
C5_SortedOutputs ==
    /\ (InDefinitions /\ pc \in {"returned", "done"}) =>
          /\ Len(output) = Len(metrics)
          /\ \A x \in 1..(Len(output) - 1) : LexLess(output[x].id, output[x + 1].id)
    /\ InRegisters =>
          \A b \in 1..Len(payload) : \A x \in 1..(Len(payload[b].registers) - 1) :
              ~KeyLess(payload[b].registers[x + 1], payload[b].registers[x])

\* a catalog was returned whose metrics were not in id order in the dict
C5_Witness ==
    /\ InDefinitions /\ pc = "done"
    /\ \E x \in 1..(Len(metrics) - 1) : LexLess(metrics[x + 1].id, metrics[x].id)
    /\ \E i \in MergedRows : IdAt(i) \notin FallbackIds

(***************************************************************************)
(* C6: a missing input table, first or later, aborts the run and the       *)
(* output file is not written; the write happens only after every table    *)
(* has been found and read to its end.                                     *)
(***************************************************************************)
C6_NoPartialOutput ==
    /\ written => /\ \A t \in 1..Len(CSV_DEFINITIONS) : exists[t]
                  /\ consumed = 1..Len(CSV_DEFINITIONS)
                  /\ error = ""
    /\ (pc = "open" /\ ~exists[k]) => ~written
    /\ pc = "aborted" => ~written /\ error # ""

\* the run aborted on a missing later table after the first was read
C6_Witness ==
    /\ pc = "aborted" /\ error = "FileNotFoundError"
    /\ k = 2 /\ consumed = {1} /\ Len(log) > 0
    /\ ~written

(***************************************************************************)
(* C7: in build_definitions a malformed row or field (also a missing data  *)
(* type, unit or name value) is skipped or defaulted and never aborts the  *)
(* run: every table that exists is read to its end.                        *)
(***************************************************************************)
C7_AsStated ==
    (InDefinitions /\ pc = "aborted") => error = "FileNotFoundError"

(***************************************************************************)
(* C8: the word length of the metric a row creates is                      *)
(* max(table_default, address_end - address_start + 1) when address_end is *)
(* present and parses, table_default otherwise; never below table_default. *)
(***************************************************************************)
\* the merged rows that created their metric: the first of their identifier
CreatingRows == {i \in MergedRows : i = SetMin(RowsOfId(IdAt(i)))}

EndParses(r) == r.address_end # None /\ ParseInt(r.address_end).ok

TableDefault(r) == NumericType(Upper(Strip(r.data_type))).words

\* C8: read.words of the metric each creating row made
C8_WordLength ==
    InDefinitions =>
        \A i \in CreatingRows :
            LET r     == log[i].row
                words == metrics[IndexOf(metrics, IdAt(i))].read.words
                span  == ParseInt(r.address_end).val - ParseInt(r.address_start).val + 1
            IN  /\ EndParses(r) => words = Max2(TableDefault(r), span)
                /\ ~EndParses(r) => words = TableDefault(r)
                /\ words >= TableDefault(r)

\* a row whose address_end parses and is below its address_start created a metric
C8_Witness ==
    /\ InDefinitions
    /\ \E i \in CreatingRows :
        /\ EndParses(log[i].row)
        /\ ParseInt(log[i].row.address_end).val < ParseInt(log[i].row.address_start).val

(***************************************************************************)
(* C9: between two rows of one model that derive the same identifier the   *)
(* first wins: models[model].register is the earlier row's address_start.  *)
(***************************************************************************)
\* the claim as stated, for the metrics dict before the fallback pass
C9_AsStated ==
    (InDefinitions /\ ~AfterFallback) =>
        \A i \in MergedRows : \A j \in MergedRows :
            (i < j /\ IdAt(i) = IdAt(j) /\ ModelAt(i) = ModelAt(j)) =>
                RegisterIn(metrics[IndexOf(metrics, IdAt(i))], ModelAt(i)) = RegisterAt(i)

\* C9 as amended: the last wins, models[model].register is the later row's
\* address_start
C9_LastWins ==
    (InDefinitions /\ ~AfterFallback) =>
        \A i \in MergedRows : \A j \in MergedRows :
            (i < j /\ IdAt(i) = IdAt(j) /\ ModelAt(i) = ModelAt(j)
               /\ j = SetMax(RowsOfIdModel(IdAt(i), ModelAt(i)))) =>
                RegisterIn(metrics[IndexOf(metrics, IdAt(i))], ModelAt(i)) = RegisterAt(j)

\* two rows of one model with the same identifier and different start
\* addresses have been merged
C9_Witness ==
    /\ InDefinitions /\ ~AfterFallback
    /\ \E i \in MergedRows : \E j \in MergedRows :
        /\ i < j /\ IdAt(i) = IdAt(j) /\ ModelAt(i) = ModelAt(j)
        /\ RegisterAt(i) # RegisterAt(j)

(***************************************************************************)
(* C10: source_version of a bucket is the first non-empty source_version   *)
(* among all rows of its table, rows dropped from the register list        *)
(* included; null only when no row has one.                                *)
(***************************************************************************)
\* the rows of table t, as load_rows yields them, in row order
TableRows(t) == SelectSeq(log, LAMBDA e : e.table = t)

\* the first non-empty source_version of a sequence of rows, None when none
FirstVersion(rows) ==
    LET with == {i \in 1..Len(rows) : rows[i].row.source_version # <<>>}
    IN  IF with = {} THEN None ELSE rows[SetMin(with)].row.source_version

\* the claim as stated: over all rows of the table
C10_AsStated ==
    InRegisters =>
        \A b \in 1..Len(payload) : payload[b].source_version = FirstVersion(TableRows(b))

\* C10 as amended: over the rows of the table that have a parseable start
\* address, the rows kept in the register list
C10_FirstKeptVersion ==
    InRegisters =>
        \A b \in 1..Len(payload) :
            payload[b].source_version
                = FirstVersion(SelectSeq(TableRows(b), LAMBDA e : e.outcome = "kept"))

\* a bucket of a table in which a dropped row with a source_version came
\* before a kept row with another one
C10_Witness ==
    /\ InRegisters /\ pc = "done"
    /\ \E b \in 1..Len(payload) :
        LET rows == TableRows(b)
        IN  \E i \in 1..Len(rows) : \E j \in 1..Len(rows) :
                /\ i < j
                /\ rows[i].outcome = "dropped" /\ rows[i].row.source_version # <<>>
                /\ rows[j].outcome = "kept" /\ rows[j].row.source_version # <<>>
                /\ rows[j].row.source_version # rows[i].row.source_version

====
